---- MODULE Spec2Model ----
(***************************************************************************)
(* State-machine model of the Bifrost forecaster of src/code/bifrost.py:   *)
(* one instance, its public calls (fit, train_eval, test, _evaluate,       *)
(* predict) and the steps of the training loop of _train / _train_epoch.   *)
(*                                                                         *)
(* Numbers that are floats in the program are kept exact: a rational is a  *)
(* record [num, den].  The tensor runtime is a black box, and the program  *)
(* never branches on a value it produces, so such a value is kept as the   *)
(* expression that produced it: a weight is "entry (i, j) of               *)
(* layers[0].weight after k optimizer steps", a loss is "the MSE of a      *)
(* forward pass over this data".  num_hidden_layers is fixed at its        *)
(* default 0, so layers[0] is the only layer and has n_forecasts rows.     *)
(***************************************************************************)
EXTENDS Integers, Sequences, FiniteSets, TLC

\* ---------------------------------------------------------------- bounds
MaxLags == 2
MaxForecasts == 1
MaxLen == 3
MaxEpochs == 2
BatchSize == 1
DelayEpochs == 1

\* Python's None; every optional value is a record, so it compares with None
None == [none |-> TRUE]

\* an exact rational num / den
R(n, d) == [num |-> n, den |-> d]

\* ------------------------------------------------------------ arithmetic
RECURSIVE Pow(_, _)
Pow(x, n) == IF n = 0 THEN 1 ELSE x * Pow(x, n - 1)

Reverse(s) == [i \in 1..Len(s) |-> s[Len(s) + 1 - i]]

\* the runtime's values, kept as expressions: model.forward(inputs), the
\* loss_fn of a forward pass over `data`, and np.mean of a list of losses
ForwardOf(inputs) == [forward |-> inputs]
MseOf(data) == [mse |-> data]
Mean(s) == [mean |-> s]

\* ---------------------------------------------------------- construction
\* train_config of Bifrost.__init__, with epochs, batch and lambda_delay
\* scaled down to the model's bounds
train_config ==
    [lr |-> R(1, 1000), lr_decay |-> R(95, 100), epochs |-> MaxEpochs,
     batch |-> BatchSize, est_sparsity |-> R(1, 10), lambda_delay |-> DelayEpochs]

Configs ==
    [n_lags : 1..MaxLags, n_forecasts : 1..MaxForecasts, n_trend : {0, 1},
     normalize : {TRUE}, verbose : BOOLEAN]

\* DeepNet(d_inputs = n_lags + n_trend, d_outputs = n_forecasts)
d_inputs(c) == c.n_lags + c.n_trend

\* layers[0].weight after k optimizer steps: n_forecasts rows of d_inputs
\* entries
WeightAfter(c, k) ==
    [i \in 1..c.n_forecasts |-> [j \in 1..d_inputs(c) |-> [row |-> i, col |-> j, step |-> k]]]

\* ------------------------------------------------------------ dataframes
Stamps(n) == [i \in 1..n |-> i]
Ramp(n, v) == [i \in 1..n |-> v + i - 1]
\* the frames callers pass: ramps of every length on consecutive stamps, and
\* two frames whose stamps are out of order or repeated
WellFormed == {[ds |-> Stamps(n), y |-> Ramp(n, 1)] : n \in 0..MaxLen}
Malformed == {[ds |-> <<2, 1>>, y |-> <<1, 2>>], [ds |-> <<1, 1>>, y |-> <<1, 2>>]}
Frames == WellFormed \cup Malformed

Rows(df) == Len(df.y)

\* check_dataframe: TRUE iff the frame is accepted
check_dataframe(df) ==
    /\ Rows(df) > 0
    /\ \A i \in 1..(Rows(df) - 1) : df.ds[i] < df.ds[i + 1]

SeqMin(s) == CHOOSE x \in {s[i] : i \in 1..Len(s)} : \A j \in 1..Len(s) : x <= s[j]
SeqMax(s) == CHOOSE x \in {s[i] : i \in 1..Len(s)} : \A j \in 1..Len(s) : x >= s[j]

\* init_data_params: shift and scale of the observation column
init_data_params(df, norm) ==
    IF norm
    THEN [y_shift |-> SeqMin(df.y), y_scale |-> SeqMax(df.y) - SeqMin(df.y)]
    ELSE [y_shift |-> 0, y_scale |-> 1]

\* normalize: y_scaled = (y - shift) / scale, kept exact
normalize(df, p) ==
    [ds |-> df.ds, y |-> df.y,
     y_scaled |-> [i \in 1..Rows(df) |-> R(df.y[i] - p.y_shift, p.y_scale)]]

\* tabularize_univariate_datetime: one example per origin t (0-based) from
\* n_lags to len - n_forecasts; inputs are series[t-n_lags : t] followed by
\* the trend index, targets are series[t : t+n_forecasts]
NumExamples(len, n_lags, n_forecasts) ==
    IF len - n_lags - n_forecasts + 1 > 0 THEN len - n_lags - n_forecasts + 1 ELSE 0

tabularize(df, n_lags, n_forecasts, n_trend) ==
    [k \in 1..NumExamples(Rows(df), n_lags, n_forecasts) |->
        LET t == n_lags + k - 1
        IN  [inputs  |-> SubSeq(df.y_scaled, t - n_lags + 1, t)
                            \o [j \in 1..n_trend |-> R(t, 1)],
             targets |-> SubSeq(df.y_scaled, t + 1, t + n_forecasts)]]

\* column (1-based) of an input vector / weight row that holds the value
\* lying `lag` steps before the forecast origin
LagColumn(c, lag) == c.n_lags - lag + 1

\* split_df(df, n_lags, ..., inputs_overbleed=True): a training prefix and a
\* validation suffix that starts n_lags rows before the split point
CutFrame(df, a, b) == [ds |-> SubSeq(df.ds, a, b), y |-> SubSeq(df.y, a, b)]

split_df(df, n_lags) ==
    {[train |-> CutFrame(df, 1, k),
      val   |-> CutFrame(df, (IF k - n_lags > 0 THEN k - n_lags ELSE 0) + 1, Rows(df))]
        : k \in 1..Rows(df)}

\* DataLoader(dataset, batch_size): number of mini-batches, the last one
\* possibly smaller
NumBatches(n, bs) == (n + bs - 1) \div bs

\* ------------------------------------------------------ regularization
\* utils.get_regularization_lambda(est_sparsity, lambda_delay, e): zero while
\* e < lambda_delay, then rising with e towards the target 1 - est_sparsity
get_regularization_lambda(est, delay, ep) ==
    IF ep < delay
    THEN R(0, 1)
    ELSE R((est.den - est.num) * (ep - delay + 1), est.den * (ep - delay + 2))

\* torch.mean(reg), reg the soft indicator 2 / (1 + exp(-3 |w|^(1/3))) - 1
\* of every entry of layers[0].weight: a value in [0, 1)
MeanReg(W) == [mean_soft_indicator |-> W]

\* torch.zeros(1)
ZeroTensor == [factor |-> R(0, 1), term |-> None]

\* the regularization term without its reg_lambda factor
RegLoss_unscaled(lam, W) == [factor |-> R(1, 1), term |-> MeanReg(W)]

\* reg_loss = reg_lambda * (zeros(1) + mean(reg)): the product of a rational
\* and a bounded term
RegLoss(lam, W) == [factor |-> lam, term |-> MeanReg(W)]

\* loss = loss + reg_loss
AddReg(mse, reg) == [mse |-> mse, reg |-> reg]

\* a scheduler that leaves the rate alone
scheduler_never(rate) == rate

\* StepLR(step_size=1, gamma=lr_decay).step()
scheduler_step(rate) ==
    R(rate.num * train_config.lr_decay.num, rate.den * train_config.lr_decay.den)

\* ------------------------------------------------------------ evaluation
\* utils.symmetric_total_percentage_error(values, estimates)
symmetric_total_percentage_error(values, estimates) ==
    [stpe |-> [values |-> values, estimates |-> estimates]]

\* self.model.layers[0].weight.detach().numpy()[0, ::-1]
weights_rereversed(W) == Reverse(W[1])

\* ground-truth vectors a caller passes; one entry per extracted weight
TrueArs(c) == {[val |-> [i \in 1..d_inputs(c) |-> IF i <= k THEN 1 ELSE 0]] : k \in 0..1}

\* a dict: a function from its keys
EmptyDict == [k \in {} |-> 0]
Put(d, k, v) == [x \in DOMAIN d \cup {k} |-> IF x = k THEN v ELSE d[x]]

\* ----------------------------------------------------------------- state
VARIABLES
    cfg,            \* constructor arguments
    history,        \* self.history
    data_params,    \* self.data_params
    results,        \* self.results
    weight,         \* self.model.layers[0].weight
    lr,             \* the optimizer's learning rate
    grad,           \* state of the parameter gradients
    pc,             \* "idle", or the position inside _train / _train_epoch
    call,           \* the public call in progress and what it still needs
    e,              \* epoch of _train's loop
    num_batches,    \* num_batches of _train_epoch
    loader_len,     \* number of mini-batches of _train's loader
    current_epoch_losses,
    current_epoch_reg_losses,
    epoch_losses,
    epoch_regs,
    loss,           \* the combined loss of the mini-batch in progress
    last,           \* the last finished call: operation, error, return value
    opt_steps,      \* optimizer.step() calls so far
    sched_steps,    \* scheduler.step() calls so far
    fit_called,     \* history: fit or train_eval was called
    fit_df,         \* history: the frame _train's _prep_data accepted
    fit_done,       \* history: a training run finished all its epochs
    eval_true_ar,   \* history: true_ar of the last evaluation that wrote results
    any_true_ar     \* history: some evaluation that wrote results had a true_ar

vars ==
    <<cfg, history, data_params, results, weight, lr, grad, pc, call, e, num_batches,
      loader_len, current_epoch_losses, current_epoch_reg_losses, epoch_losses,
      epoch_regs, loss, last, opt_steps, sched_steps, fit_called, fit_df, fit_done,
      eval_true_ar, any_true_ar>>

instance == <<history, data_params, results, weight, lr, grad, opt_steps, sched_steps>>
locals ==
    <<e, num_batches, loader_len, current_epoch_losses, current_epoch_reg_losses,
      epoch_losses, epoch_regs, loss>>
ghosts == <<fit_df, fit_done, eval_true_ar, any_true_ar>>

NoCall == [op |-> "none", df_val |-> None, true_ar |-> None]
Outcome(op, err, ret) == [op |-> op, err |-> err, ret |-> ret, new_data |-> FALSE]
RetNone == [kind |-> "None"]
RetSelf == [kind |-> "self"]
RetResults == [kind |-> "results"]
Raised == [kind |-> "raise"]

Init ==
    /\ cfg \in Configs
    /\ weight = WeightAfter(cfg, 0)
    /\ history = None
    /\ data_params = None
    /\ results = EmptyDict
    /\ lr = train_config.lr
    /\ grad = "none"
    /\ pc = "idle"
    /\ call = NoCall
    /\ e = 0
    /\ num_batches = 0
    /\ loader_len = 0
    /\ current_epoch_losses = <<>>
    /\ current_epoch_reg_losses = <<>>
    /\ epoch_losses = <<>>
    /\ epoch_regs = <<>>
    /\ loss = None
    /\ last = Outcome("init", "ok", RetNone)
    /\ opt_steps = 0
    /\ sched_steps = 0
    /\ fit_called = FALSE
    /\ fit_df = None
    /\ fit_done = FALSE
    /\ eval_true_ar = [never |-> TRUE]
    /\ any_true_ar = FALSE

\* ------------------------------------------------------------ _prep_data
\* _prep_data recomputing the params on every call
params_always(dp) == TRUE

\* `if self.data_params is None`
params_missing(dp) == dp = None

\* Bifrost._prep_data(df): what it leaves in data_params and history, and
\* the dataset it returns
_prep_data(df, h, dp) ==
    IF ~check_dataframe(df)
    THEN [err |-> "ValidationError", data_params |-> dp, history |-> h, dataset |-> <<>>]
    ELSE LET p   == IF params_missing(dp) THEN init_data_params(df, cfg.normalize) ELSE dp
             ndf == normalize(df, p)
         IN  [err |-> "ok", data_params |-> p, history |-> ndf,
              dataset |-> tabularize(ndf, cfg.n_lags, cfg.n_forecasts, cfg.n_trend)]

\* ---------------------------------------------------------------- _train
\* _train without its guard
already_fit_dropped(h) == FALSE

\* `if self.history is not None` of _train
already_fit(h) == h # None

\* _train(df) stopped by its guard or by its assertion
TrainRefused(op) ==
    /\ fit_called' = TRUE
    /\ last' = Outcome(op, IF already_fit(history) THEN "AlreadyFit" ELSE "AssertionError",
                       Raised)
    /\ UNCHANGED <<instance, locals, ghosts, pc, call, cfg>>

\* _train(df) past its guard, up to the first epoch: _prep_data and the
\* loader; `op` is the public call, df_val and true_ar what train_eval passes
\* to _evaluate afterwards
TrainBegin(op, df, df_val, true_ar) ==
    LET pd == _prep_data(df, history, data_params)
    IN  /\ fit_called' = TRUE
        /\ history' = pd.history
        /\ data_params' = pd.data_params
        /\ fit_df' = IF pd.err = "ok" THEN df ELSE fit_df
        /\ UNCHANGED <<results, weight, lr, grad, opt_steps, sched_steps, cfg,
                       fit_done, eval_true_ar, any_true_ar>>
        /\ IF pd.err # "ok"
           THEN /\ last' = Outcome(op, pd.err, Raised)
                /\ UNCHANGED <<locals, pc, call>>
           ELSE IF Len(pd.dataset) = 0
           THEN /\ last' = Outcome(op, "LoaderError", Raised)
                /\ UNCHANGED <<locals, pc, call>>
           ELSE /\ pc' = "forward"
                /\ call' = [op |-> op, df_val |-> df_val, true_ar |-> true_ar]
                /\ loader_len' = NumBatches(Len(pd.dataset), train_config.batch)
                /\ e' = 0
                /\ num_batches' = 0
                /\ UNCHANGED <<current_epoch_losses, current_epoch_reg_losses,
                               epoch_losses, epoch_regs, loss, last>>

\* Bifrost.fit(df)
Fit ==
    /\ pc = "idle"
    /\ IF already_fit(history) \/ data_params # None
       THEN TrainRefused("fit")
       ELSE \E df \in Frames : TrainBegin("fit", df, None, None)

\* Bifrost.train_eval(df, valid_p, true_ar): check_dataframe and split_df
\* run before _train
TrainEval ==
    /\ pc = "idle"
    /\ \E df \in Frames :
          IF ~check_dataframe(df)
          THEN /\ fit_called' = TRUE
               /\ last' = Outcome("train_eval", "ValidationError", Raised)
               /\ UNCHANGED <<instance, locals, ghosts, pc, call, cfg>>
          ELSE IF already_fit(history) \/ data_params # None
          THEN TrainRefused("train_eval")
          ELSE \E sp \in split_df(df, cfg.n_lags), true_ar \in TrueArs(cfg) \cup {None} :
                  TrainBegin("train_eval", sp.train, sp.val, true_ar)

\* ------------------------------------------------------------- _evaluate
\* _evaluate without its guard
evaluate_guard_dropped(h) == FALSE

\* `if self.history is None` of _evaluate
evaluate_not_fit(h) == h = None

\* _evaluate scoring the weight row as stored, not the reversed copy
evaluate_results_unreversed(res, W, true_ar, v) ==
    LET r1 == Put(Put(Put(res, "loss_val", Mean(<<v>>)), "mse_val", v),
                  "weights", weights_rereversed(W))
    IN  IF true_ar # None
        THEN Put(Put(r1, "true_ar", true_ar.val), "sTPE (weights)",
                 symmetric_total_percentage_error(true_ar.val, W[1]))
        ELSE r1

\* the keys _evaluate writes once the forward pass is done; v is the loss
\* of that pass
evaluate_results(res, W, true_ar, v) ==
    LET r1 == Put(Put(Put(res, "loss_val", Mean(<<v>>)), "mse_val", v),
                  "weights", weights_rereversed(W))
    IN  IF true_ar # None
        THEN Put(Put(r1, "true_ar", true_ar.val), "sTPE (weights)",
                 symmetric_total_percentage_error(true_ar.val, r1["weights"]))
        ELSE r1

\* Bifrost._evaluate(df, true_ar) on an instance with the given history,
\* data_params and results: the error it raises ("ok" for none) and what it
\* leaves behind
_evaluate(df, true_ar, h, dp, res) ==
    IF evaluate_not_fit(h)
    THEN [err |-> "NotFit", history |-> h, data_params |-> dp, results |-> res,
          wrote |-> FALSE]
    ELSE IF dp = None
    THEN [err |-> "AssertionError", history |-> h, data_params |-> dp, results |-> res,
          wrote |-> FALSE]
    ELSE LET pd == _prep_data(df, h, dp)
         IN  IF pd.err # "ok" \/ Len(pd.dataset) = 0
             THEN [err |-> IF pd.err # "ok" THEN pd.err ELSE "LoaderError",
                   history |-> pd.history, data_params |-> pd.data_params,
                   results |-> res, wrote |-> FALSE]
             ELSE [err |-> IF true_ar # None /\ cfg.verbose THEN "NameError" ELSE "ok",
                   history |-> pd.history, data_params |-> pd.data_params,
                   results |-> evaluate_results(res, weight, true_ar,
                                                MseOf(pd.history.y_scaled)),
                   wrote |-> TRUE]

\* the effect of one _evaluate call made by `op`, starting from results res
Evaluated(op, ret, df, true_ar, res) ==
    LET ev == _evaluate(df, true_ar, history, data_params, res)
    IN  /\ history' = ev.history
        /\ data_params' = ev.data_params
        /\ results' = ev.results
        /\ last' = Outcome(op, ev.err, IF ev.err = "ok" THEN ret ELSE Raised)
        /\ eval_true_ar' = IF ev.wrote THEN true_ar ELSE eval_true_ar
        /\ any_true_ar' = (any_true_ar \/ (ev.wrote /\ true_ar # None))

\* Bifrost.test(df)
Test ==
    /\ pc = "idle"
    /\ \E df \in (IF evaluate_not_fit(history) THEN {None} ELSE Frames) :
          Evaluated("test", RetSelf, df, None, results)
    /\ UNCHANGED <<cfg, weight, lr, grad, opt_steps, sched_steps, locals, pc, call,
                   fit_called, fit_df, fit_done>>

\* Bifrost._evaluate(df, true_ar) called directly
Evaluate ==
    /\ pc = "idle"
    /\ \E df \in (IF evaluate_not_fit(history) THEN {None} ELSE Frames),
          true_ar \in TrueArs(cfg) :
          Evaluated("_evaluate", RetNone, df, true_ar, results)
    /\ UNCHANGED <<cfg, weight, lr, grad, opt_steps, sched_steps, locals, pc, call,
                   fit_called, fit_df, fit_done>>

\* --------------------------------------------------------------- predict
\* `if self.history is None` of predict
predict_not_fit(h) == h = None

\* Bifrost._prep_data_predict(df): the error it raises and the dataset
_prep_data_predict(df) ==
    IF df = None
    THEN [err |-> "ok",
          dataset |-> tabularize(history, cfg.n_lags, 0, cfg.n_trend)]
    ELSE IF Rows(df) = 0
    THEN [err |-> "ValueError", dataset |-> <<>>]
    ELSE IF ~check_dataframe(df)
    THEN [err |-> "ValidationError", dataset |-> <<>>]
    ELSE IF data_params = None
    THEN [err |-> "AssertionError", dataset |-> <<>>]
    ELSE [err |-> "ok",
          dataset |-> tabularize(normalize(df, data_params), cfg.n_lags, 0, cfg.n_trend)]

\* what predict hands back once the forward pass has produced `predicted`:
\* the method ends without a return statement
predict_return(predicted) == RetNone

\* Bifrost.predict(df=None)
Predict ==
    /\ pc = "idle"
    /\ IF predict_not_fit(history)
       THEN last' = Outcome("predict", "NotFit", Raised)
       ELSE \E df \in Frames \cup {None} :
               LET pd == _prep_data_predict(df)
                   out == IF pd.err # "ok"
                          THEN Outcome("predict", pd.err, Raised)
                          ELSE IF Len(pd.dataset) = 0
                          THEN Outcome("predict", "IndexError", Raised)
                          ELSE Outcome("predict", "ok", predict_return(
                                   ForwardOf(pd.dataset[Len(pd.dataset)].inputs)))
               IN  last' = [out EXCEPT !.new_data = (df # None)]
    /\ UNCHANGED <<cfg, instance, locals, pc, call, fit_called, ghosts>>

\* ---------------------------------------------------------- _train_epoch
\* reg_lambda of the epoch in progress
reg_lambda == get_regularization_lambda(train_config.est_sparsity,
                                        train_config.lambda_delay, e)

\* where _train_epoch goes after optimizer.step(): the next mini-batch, or
\* scheduler.step() once the loader is exhausted
after_step(done, len) == IF done < len THEN "forward" ELSE "sched"

\* forward pass, loss and regularization of one mini-batch
Forward ==
    /\ pc = "forward"
    /\ LET mse == MseOf([epoch |-> e, batch |-> num_batches])
           reg == IF reg_lambda # None THEN RegLoss(reg_lambda, weight) ELSE ZeroTensor
       IN  /\ current_epoch_losses' = Append(current_epoch_losses, mse)
           /\ current_epoch_reg_losses' = Append(current_epoch_reg_losses, reg)
           /\ loss' = AddReg(mse, reg)
    /\ pc' = "zero_grad"
    /\ UNCHANGED <<cfg, instance, call, e, num_batches, loader_len, epoch_losses,
                   epoch_regs, last, fit_called, ghosts>>

\* self.optimizer.zero_grad()
ZeroGrad ==
    /\ pc = "zero_grad"
    /\ grad' = "zero"
    /\ pc' = "backward"
    /\ UNCHANGED <<cfg, history, data_params, results, weight, lr, opt_steps,
                   sched_steps, locals, call, last, fit_called, ghosts>>

\* loss.backward(retain_graph=True)
Backward ==
    /\ pc = "backward"
    /\ grad' = "computed"
    /\ pc' = "step"
    /\ UNCHANGED <<cfg, history, data_params, results, weight, lr, opt_steps,
                   sched_steps, locals, call, last, fit_called, ghosts>>

\* self.optimizer.step(); num_batches += 1
OptStep ==
    /\ pc = "step"
    /\ weight' = WeightAfter(cfg, opt_steps + 1)
    /\ opt_steps' = opt_steps + 1
    /\ num_batches' = num_batches + 1
    /\ pc' = after_step(num_batches + 1, loader_len)
    /\ UNCHANGED <<cfg, history, data_params, results, lr, grad, sched_steps, call, e,
                   loader_len, current_epoch_losses, current_epoch_reg_losses,
                   epoch_losses, epoch_regs, loss, last, fit_called, ghosts>>

\* self.scheduler.step() and the rest of _train_epoch, then _train's
\* bookkeeping of the epoch
SchedStep ==
    /\ pc = "sched"
    /\ lr' = scheduler_step(lr)
    /\ sched_steps' = sched_steps + 1
    /\ epoch_losses' = Append(epoch_losses, Mean(current_epoch_losses))
    /\ epoch_regs' = Append(epoch_regs, Mean(current_epoch_reg_losses))
    /\ current_epoch_losses' = <<>>
    /\ current_epoch_reg_losses' = <<>>
    /\ num_batches' = 0
    /\ e' = e + 1
    /\ pc' = IF e + 1 < train_config.epochs THEN "forward" ELSE "finish"
    /\ UNCHANGED <<cfg, history, data_params, results, weight, grad, opt_steps, call,
                   loader_len, loss, last, fit_called, ghosts>>

\* the keys _train writes after its last epoch
train_results(res, losses, regs) ==
    Put(Put(Put(Put(res, "epoch_losses", losses), "epoch_regularizations", regs),
            "loss_train", losses[Len(losses)]), "time_train", "duration")

\* the end of _train, and of the public call that made it: fit returns self,
\* train_eval goes on to _evaluate(df_val, true_ar) and returns self.results
TrainDone ==
    /\ pc = "finish"
    /\ fit_done' = TRUE
    /\ IF call.op = "fit"
       THEN /\ results' = train_results(results, epoch_losses, epoch_regs)
            /\ last' = Outcome("fit", "ok", RetSelf)
            /\ UNCHANGED <<history, data_params, eval_true_ar, any_true_ar>>
       ELSE Evaluated("train_eval", RetResults, call.df_val, call.true_ar,
                      train_results(results, epoch_losses, epoch_regs))
    /\ pc' = "idle"
    /\ call' = NoCall
    /\ e' = 0
    /\ loader_len' = 0
    /\ epoch_losses' = <<>>
    /\ epoch_regs' = <<>>
    /\ loss' = None
    /\ UNCHANGED <<cfg, weight, lr, grad, opt_steps, sched_steps, num_batches,
                   current_epoch_losses, current_epoch_reg_losses, fit_called, fit_df>>

Next ==
    \/ Fit
    \/ TrainEval
    \/ Test
    \/ Evaluate
    \/ Predict
    \/ Forward
    \/ ZeroGrad
    \/ Backward
    \/ OptStep
    \/ SchedStep
    \/ TrainDone

Spec == Init /\ [][Next]_vars

\* ================================================================ claims
Idle == pc = "idle"
FitCalls == {"fit", "train_eval"}
FitKeys == {"epoch_losses", "epoch_regularizations", "loss_train", "time_train"}
FitPart(res) == [k \in FitKeys \cap DOMAIN res |-> res[k]]

\* C1 as stated: once a fit has completed, every later call to fit or
\* train_eval raises the 'can only be fit once' error and leaves data_params,
\* history, results, the model parameters and the optimizer untouched, and
\* starts no epoch.
C1_RefitAlwaysAlreadyFit ==
    [][(fit_done /\ Idle /\ last'.op \in FitCalls)
          => (last'.err = "AlreadyFit" /\ pc' = "idle" /\ UNCHANGED instance)]_vars

\* C1 amended: once a fit has completed, every later call to fit raises the
\* 'can only be fit once' error, and every later call to train_eval fails
\* with that error or, when its frame is rejected before _train is reached,
\* with the validation error; either way the call starts no epoch and leaves
\* data_params, history, results, the model parameters and the optimizer
\* untouched.
C1_RefitAlwaysFails ==
    [][(fit_done /\ Idle /\ last'.op \in FitCalls)
          => /\ \/ last'.err = "AlreadyFit"
                \/ last'.op = "train_eval" /\ last'.err = "ValidationError"
             /\ pc' = "idle"
             /\ UNCHANGED instance]_vars

C1_Witness ==
    fit_done /\ Idle /\ last.op = "fit" /\ last.err = "AlreadyFit"

\* C2: while no fit or train_eval has ever been called, every test, _evaluate
\* and predict call raises the not-fit error, and the instance stays Unfit:
\* history and data_params unset, results empty, no training step taken.
C2_NotFitBeforeFit ==
    ~fit_called =>
        /\ history = None
        /\ data_params = None
        /\ DOMAIN results = {}
        /\ opt_steps = 0
        /\ last.op \in {"test", "_evaluate", "predict"} => last.err = "NotFit"

C2_Witness ==
    ~fit_called /\ last.op = "test" /\ last.err = "NotFit" /\ history = None

\* C3: a predict call with no new data that succeeds returns a vector of
\* length n_forecasts.
C3_PredictReturnsForecast ==
    (last.op = "predict" /\ last.err = "ok" /\ ~last.new_data)
        => (last.ret.kind = "vector" /\ Len(last.ret.val) = cfg.n_forecasts)

\* C4: once a fit has completed, self.history is the normalized fit-time
\* series whatever test and predict calls have followed.
C4_HistoryFrozen ==
    (fit_done /\ Idle)
        => history = normalize(fit_df, init_data_params(fit_df, cfg.normalize))

\* C5: data_params is unset until _train accepts a series, and from then on
\* equals init_data_params of that series; the frame any later _prep_data
\* leaves in history was normalized with exactly those params.
C5_ParamsFrozen ==
    /\ fit_df = None => data_params = None
    /\ fit_df # None =>
          /\ data_params = init_data_params(fit_df, cfg.normalize)
          /\ history # None =>
                history = normalize([ds |-> history.ds, y |-> history.y],
                                    init_data_params(fit_df, cfg.normalize))

C5_Witness ==
    /\ fit_done /\ Idle /\ last.op = "test" /\ last.err = "ok"
    /\ init_data_params(history, cfg.normalize) # data_params

\* a reg loss is 0 iff its rational factor is; a mean of reg losses is 0
\* iff each of them is
IsZero(r) == r.factor.num = 0 /\ r.factor.den # 0
MeanIsZero(m) == \A i \in 1..Len(m.mean) : IsZero(m.mean[i])
BeforeDelay(ep) == ep < train_config.lambda_delay

C7_WeightsByLag ==
    "weights" \in DOMAIN results =>
        \A i \in 0..(cfg.n_lags - 1) :
            results["weights"][i + 1] = weight[1][LagColumn(cfg, cfg.n_lags - i)]

LrAtEpoch(k) ==
    R(train_config.lr.num * Pow(train_config.lr_decay.num, k),
      train_config.lr.den * Pow(train_config.lr_decay.den, k))

\* C8: during epoch e every mini-batch goes zero_grad, backward, one
\* optimizer step, all at rate lr * lr_decay^e; the scheduler has stepped
\* exactly e times before epoch e starts and steps next only after the
\* epoch's last optimizer step; when fit returns, epoch_losses and
\* epoch_regularizations hold `epochs` entries and loss_train is the last
\* epoch loss.
C8_DecayOncePerEpoch ==
    /\ pc \in {"forward", "zero_grad", "backward", "step"} =>
          /\ lr = LrAtEpoch(e)
          /\ sched_steps = e
          /\ num_batches < loader_len
          /\ opt_steps = e * loader_len + num_batches
    /\ pc = "backward" => grad = "zero"
    /\ pc = "step" => grad = "computed"
    /\ pc = "sched" =>
          /\ lr = LrAtEpoch(e)
          /\ sched_steps = e
          /\ num_batches = loader_len
          /\ opt_steps = (e + 1) * loader_len
    /\ fit_done =>
          /\ sched_steps = train_config.epochs
          /\ lr = LrAtEpoch(train_config.epochs)
          /\ Len(results["epoch_losses"]) = train_config.epochs
          /\ Len(results["epoch_regularizations"]) = train_config.epochs
          /\ results["loss_train"] = results["epoch_losses"][train_config.epochs]

C8_Witness ==
    pc = "step" /\ e = 1 /\ num_batches = 1 /\ loader_len = 2 /\ lr = LrAtEpoch(1)

\* C9: while no training run has completed, the instance is Unfit between
\* calls: a fit or train_eval that raised has left history and data_params
\* unset.
C9_FailedFitLeavesUnfit ==
    (Idle /\ ~fit_done) => (history = None /\ data_params = None)

LastEvalHadTrueAr == "val" \in DOMAIN eval_true_ar
HasTrueArKeys == {"true_ar", "sTPE (weights)"} \subseteq DOMAIN results
HasNoTrueArKey == {"true_ar", "sTPE (weights)"} \cap DOMAIN results = {}

\* C10 as stated: results holds 'true_ar' and 'sTPE (weights)' if and only
\* if the most recent evaluation was given true_ar.
C10_KeysIffLastEvaluation ==
    IF LastEvalHadTrueAr THEN HasTrueArKeys ELSE HasNoTrueArKey

\* C10 amended: results holds 'true_ar' and 'sTPE (weights)' if and only if
\* some evaluation so far that got as far as writing its results was given
\* true_ar (the keys of an earlier evaluation stay when a later one has no
\* true_ar); then 'sTPE (weights)' is the error of results['true_ar']
\* against results['weights'], which is the reversed first weight row of the
\* model; each test or _evaluate call leaves the fit-time keys unchanged.
C10_KeysIffSomeEvaluation ==
    /\ [](/\ IF any_true_ar THEN HasTrueArKeys ELSE HasNoTrueArKey
          /\ (Idle /\ any_true_ar) =>
                /\ results["weights"] = weights_rereversed(weight)
                /\ results["sTPE (weights)"] =
                      symmetric_total_percentage_error(results["true_ar"],
                                                       results["weights"]))
    /\ [][last'.op \in {"test", "_evaluate"} => FitPart(results') = FitPart(results)]_vars

C10_Witness ==
    /\ Idle /\ any_true_ar /\ ~LastEvalHadTrueAr
    /\ last.op = "test" /\ last.err = "ok"
    /\ HasTrueArKeys

====
